---------------------------- MODULE Spec2Model ----------------------------
(***************************************************************************)
(* Model of the rule-based core of jira-plugin-analyzer:                   *)
(*   - ReleaseNotesAnalyzer (src/analyzer.py): analyze_release_notes,      *)
(*     _is_admin_relevant, _is_user_relevant, _check_compatibility,        *)
(*     _compare_versions;                                                  *)
(*   - the wire-format-A parser of analyze_with_openai (src/app.py);       *)
(*   - the wire-format-B parser of analyze_with_ollama                     *)
(*     (src/app_ollama.py).                                                *)
(*                                                                         *)
(* Python str values are TLA+ strings, handled with Len, SubSeq and \o.    *)
(* The module is ASCII: the bullet U+2022 is written Bullet and the        *)
(* warning sign U+26A0 U+FE0F is written WarnSign.                         *)
(***************************************************************************)
EXTENDS Integers, Sequences, FiniteSets, TLC

VARIABLES
    \* _compare_versions: the components the arguments were written from, the
    \* arguments, the outcome, the position of the call; for a run of calls on
    \* three versions, the third version and the outcomes so far
    v1_src, v2_src, v1, v2, cmp, cpc, v3_src, v3, calls,
    \* _check_compatibility: how the content was written, the arguments, the
    \* outcome, the position of the call
    cc_frags, cc_content, cc_target, cc_out, ccpc,
    \* analyze_release_notes: the arguments, the number of notes the loop has
    \* taken, its three lists, the returned dict, the position of the call; for
    \* two calls in a row, the outcome of the first
    release_notes, current_jira_version, target_jira_version, note_idx,
    admin_notes, user_notes, compatibility_warnings, result, apc, first,
    \* analyze_with_openai, from the model's answer on: the lines the answer was
    \* written from, the answer, the blocks and the lines of the block still to
    \* read, the parse state, the buckets, the position of the call
    text_src, analysis_text, sections, lines, current_main_section,
    current_subsection, results, ppc,
    \* analyze_with_ollama, from the model's answer on: it has analysis_text,
    \* sections and results of its own (the variables above, while it runs),
    \* its section state and the position of the call
    current_section, opc

compareVars == <<v1_src, v2_src, v1, v2, cmp, cpc, v3_src, v3, calls>>
compatVars == <<cc_frags, cc_content, cc_target, cc_out, ccpc>>
analyzerVars == <<release_notes, current_jira_version, target_jira_version, note_idx,
                  admin_notes, user_notes, compatibility_warnings, result, apc, first>>
parserVars == <<text_src, analysis_text, sections, lines, current_main_section,
                current_subsection, results, ppc>>
ollamaVars == <<current_section, opc>>
vars == <<compareVars, compatVars, analyzerVars, parserVars, ollamaVars>>

---------------------------------------------------------------------------
(* Bounds of the model *)

\* the largest number of dot-separated components of a drawn version string
MaxParts == 2
\* the largest number of fragments a drawn note text is written from
MaxFrags == 3
\* the largest number of notes in a drawn release_notes list
MaxNotes == 2
\* the largest number of lines of a drawn model answer
MaxLines == 3
\* the largest number of bullet lines under the header of a drawn answer
MaxBullets == 2

---------------------------------------------------------------------------
(* Python str primitives *)

Char(s, i) == SubSeq(s, i, i)

Max(a, b) == IF a >= b THEN a ELSE b

UpperAlpha == "ABCDEFGHIJKLMNOPQRSTUVWXYZ"
LowerAlpha == "abcdefghijklmnopqrstuvwxyz"
DigitChars == "0123456789"

LowerMap == [c \in {Char(UpperAlpha, i) : i \in 1..26} |->
                Char(LowerAlpha, CHOOSE i \in 1..26 : Char(UpperAlpha, i) = c)]

\* str.lower() on ASCII text, character by character (the text is halved
\* rather than peeled, to keep the evaluation shallow)
RECURSIVE lower(_)
lower(s) ==
    IF Len(s) = 0 THEN ""
    ELSE IF Len(s) = 1 THEN (IF s \in DOMAIN LowerMap THEN LowerMap[s] ELSE s)
    ELSE lower(SubSeq(s, 1, Len(s) \div 2)) \o lower(SubSeq(s, (Len(s) \div 2) + 1, Len(s)))

\* the characters str.strip() removes and \s matches (ASCII part)
Whitespace == {" ", "\t", "\n", "\r", "\f"}

\* needle in hay
Contains(hay, needle) ==
    \E i \in 1..(Len(hay) - Len(needle) + 1) :
        SubSeq(hay, i, i + Len(needle) - 1) = needle

\* s.startswith(p), s.endswith(p)
StartsWith(s, p) == Len(p) <= Len(s) /\ SubSeq(s, 1, Len(p)) = p
EndsWith(s, p) == Len(p) <= Len(s) /\ SubSeq(s, Len(s) - Len(p) + 1, Len(s)) = p

\* the text at position i of s is p
At(s, i, p) == i >= 1 /\ i + Len(p) - 1 <= Len(s) /\ SubSeq(s, i, i + Len(p) - 1) = p

Min(S) == CHOOSE x \in S : \A y \in S : x <= y

\* the length of the longest run of characters of class cls starting at s[i]
Run(s, i, cls) ==
    Min({n \in 0..Max(Len(s) - i + 1, 0) : i + n > Len(s) \/ Char(s, i + n) \notin cls})

\* the length of the longest run of characters of class cls ending at s[i]
RunBack(s, i, cls) ==
    Min({n \in 0..Max(i, 0) : i - n < 1 \/ Char(s, i - n) \notin cls})

\* s.strip()
lstrip(s) == SubSeq(s, Run(s, 1, Whitespace) + 1, Len(s))
rstrip(s) == SubSeq(s, 1, Len(s) - RunBack(s, Len(s), Whitespace))
strip(s) == rstrip(lstrip(s))

\* the first position from i on where needle occurs in hay, 0 when none does
IndexFrom(hay, needle, i) ==
    LET hits == {j \in i..(Len(hay) - Len(needle) + 1) : At(hay, j, needle)}
    IN IF hits = {} THEN 0 ELSE Min(hits)

\* s.split(sep) for a non-empty separator: the pieces between the
\* non-overlapping occurrences of sep, scanned left to right
RECURSIVE SplitFrom(_, _, _)
SplitFrom(s, sep, start) ==
    LET i == IndexFrom(s, sep, start)
    IN IF i = 0 THEN <<SubSeq(s, start, Len(s))>>
       ELSE <<SubSeq(s, start, i - 1)>> \o SplitFrom(s, sep, i + Len(sep))
split(s, sep) == SplitFrom(s, sep, 1)

\* sep.join(list)
RECURSIVE join(_, _)
join(list, sep) ==
    IF list = <<>> THEN ""
    ELSE IF Len(list) = 1 THEN list[1]
    ELSE list[1] \o sep \o join(Tail(list), sep)

\* s.replace(old, new) for a non-empty old: the non-overlapping occurrences
\* of old, scanned left to right, give way to new
replace(s, old, new) == join(split(s, old), new)

\* s.strip(chars): the characters of chars are dropped at both ends
StripChars(s, chars) ==
    LET t == SubSeq(s, Run(s, 1, chars) + 1, Len(s))
    IN SubSeq(t, 1, Len(t) - RunBack(t, Len(t), chars))

DigitSet == {Char(DigitChars, i) : i \in 1..10}
DigitVal == [c \in DigitSet |-> (CHOOSE i \in 1..10 : Char(DigitChars, i) = c) - 1]

\* str(n) for a natural number n
RECURSIVE str(_)
str(n) == IF n < 10 THEN Char(DigitChars, n + 1)
          ELSE str(n \div 10) \o Char(DigitChars, (n % 10) + 1)

RECURSIVE DigitsValue(_, _)
DigitsValue(s, acc) ==
    IF s = "" THEN acc
    ELSE IF Head(s) = "_" THEN DigitsValue(Tail(s), acc)
    ELSE DigitsValue(Tail(s), 10 * acc + DigitVal[Head(s)])

\* int(x): surrounding whitespace is dropped, one sign is allowed, the rest is
\* decimal digits with single underscores between them; anything else raises
\* ValueError (ok = FALSE)
int(x) ==
    LET t == strip(x)
        signed == t # "" /\ Head(t) \in {"+", "-"}
        body == IF signed THEN Tail(t) ELSE t
        wellformed ==
            /\ body # ""
            /\ \A i \in 1..Len(body) : Char(body, i) \in DigitSet \cup {"_"}
            /\ Head(body) # "_"
            /\ Char(body, Len(body)) # "_"
            /\ ~Contains(body, "__")
    IN IF ~wellformed THEN [ok |-> FALSE, val |-> 0]
       ELSE [ok |-> TRUE,
             val |-> IF signed /\ Head(t) = "-" THEN 0 - DigitsValue(body, 0)
                     ELSE DigitsValue(body, 0)]

---------------------------------------------------------------------------
(* ReleaseNotesAnalyzer._compare_versions *)

\* parse_version: [int(x) for x in v.split(".")]; raises when one int() does
parse_version(v) ==
    LET xs == split(v, ".")
        ps == [i \in 1..Len(xs) |-> int(xs[i])]
    IN IF \E i \in 1..Len(xs) : ~ps[i].ok THEN [ok |-> FALSE, parts |-> <<>>]
       ELSE [ok |-> TRUE, parts |-> [i \in 1..Len(xs) |-> ps[i].val]]

\* (faulty variant) the loop stops at the shorter list: no padding with zeros
RECURSIVE CompareFromShorter(_, _, _)
CompareFromShorter(p1, p2, i) ==
    IF i > Len(p1) \/ i > Len(p2) THEN 0
    ELSE IF p1[i] > p2[i] THEN 1
    ELSE IF p1[i] < p2[i] THEN -1
    ELSE CompareFromShorter(p1, p2, i + 1)

\* the for loop over range(max(len(v1_parts), len(v2_parts)))
RECURSIVE CompareFrom(_, _, _)
CompareFrom(p1, p2, i) ==
    IF i > Max(Len(p1), Len(p2)) THEN 0
    ELSE LET v1_part == IF i <= Len(p1) THEN p1[i] ELSE 0
             v2_part == IF i <= Len(p2) THEN p2[i] ELSE 0
         IN IF v1_part > v2_part THEN 1
            ELSE IF v1_part < v2_part THEN -1
            ELSE CompareFrom(p1, p2, i + 1)

\* (faulty variant) components are parsed on demand, one pair per loop round, so a
\* comparison an earlier pair decides never reads the later components
RECURSIVE CompareLazyFrom(_, _, _)
CompareLazyFrom(xs, ys, i) ==
    IF i > Max(Len(xs), Len(ys)) THEN [raised |-> FALSE, value |-> 0]
    ELSE LET a == IF i <= Len(xs) THEN int(xs[i]) ELSE [ok |-> TRUE, val |-> 0]
             b == IF i <= Len(ys) THEN int(ys[i]) ELSE [ok |-> TRUE, val |-> 0]
         IN IF ~a.ok \/ ~b.ok THEN [raised |-> TRUE, value |-> 0]
            ELSE IF a.val > b.val THEN [raised |-> FALSE, value |-> 1]
            ELSE IF a.val < b.val THEN [raised |-> FALSE, value |-> -1]
            ELSE CompareLazyFrom(xs, ys, i + 1)
compare_versions_lazy(a, b) == CompareLazyFrom(split(a, "."), split(b, "."), 1)

\* _compare_versions(v1, v2): both arguments are parsed before the loop runs
compare_versions(a, b) ==
    LET v1_parts == parse_version(a)
        v2_parts == parse_version(b)
    IN IF ~v1_parts.ok \/ ~v2_parts.ok THEN [raised |-> TRUE, value |-> 0]
       ELSE [raised |-> FALSE, value |-> CompareFrom(v1_parts.parts, v2_parts.parts, 1)]

---------------------------------------------------------------------------
(* ReleaseNotesAnalyzer: keyword tests *)

\* (faulty variant) the twelve terms of the design text: 'permissions' for
\* 'permission', and neither 'admin' nor 'access'
admin_keywords_twelve ==
    <<"configuration", "security", "performance", "database", "server",
      "installation", "upgrade", "migration", "compatibility", "permissions",
      "authentication", "authorization">>

admin_keywords ==
    <<"admin", "configuration", "security", "performance", "database", "server",
      "installation", "upgrade", "migration", "compatibility", "permission",
      "access", "authentication", "authorization">>

user_keywords ==
    <<"feature", "improvement", "bug fix", "ui", "interface", "workflow",
      "user experience", "usability", "functionality", "new", "enhancement">>

\* any(keyword.lower() in content.lower() for keyword in keywords)
AnyKeywordIn(keywords, content) ==
    LET text == lower(content)
    IN \E k \in 1..Len(keywords) : Contains(text, lower(keywords[k]))

is_admin_relevant(content) == AnyKeywordIn(admin_keywords, content)

is_user_relevant(content) == AnyKeywordIn(user_keywords, content)

---------------------------------------------------------------------------
(* ReleaseNotesAnalyzer._check_compatibility *)

WarnSign == "(!)"
RequiresWarning(required_version) ==
    WarnSign \o " Warning: This version requires Jira " \o required_version \o " or higher"
BreakingWarning == WarnSign \o " Warning: Contains breaking changes"
DeprecatedWarning == WarnSign \o " Warning: Contains deprecated features"

NoMatch == [found |-> FALSE, group |-> "", end |-> 0]

\* one attempt of requires\s+Jira\s+(\d+\.\d+\.\d+), re.IGNORECASE, at s[i]
\* (ls is s in lower case): every quantifier is followed by a character
\* outside its class, so the greedy runs are the only way to match. end is
\* the position after the match
RequiresMatchAt(s, ls, i) ==
    IF ~At(ls, i, "requires") THEN NoMatch
    ELSE LET a == i + 8
             w1 == Run(s, a, Whitespace)
             b == a + w1
             c == b + 4
             w2 == Run(s, c, Whitespace)
             d1 == c + w2
             n1 == Run(s, d1, DigitSet)
             d2 == d1 + n1 + 1
             n2 == Run(s, d2, DigitSet)
             d3 == d2 + n2 + 1
             n3 == Run(s, d3, DigitSet)
         IN IF /\ w1 >= 1 /\ At(ls, b, "jira") /\ w2 >= 1
               /\ n1 >= 1 /\ At(s, d1 + n1, ".")
               /\ n2 >= 1 /\ At(s, d2 + n2, ".")
               /\ n3 >= 1
            THEN [found |-> TRUE, group |-> SubSeq(s, d1, d3 + n3 - 1), end |-> d3 + n3]
            ELSE NoMatch

\* re.finditer: group(1) of the non-overlapping matches, left to right; each
\* search resumes where the match before it ended
RECURSIVE RequiresFrom(_, _, _)
RequiresFrom(s, ls, i) ==
    LET starts == {j \in i..Len(s) : RequiresMatchAt(s, ls, j).found}
    IN IF starts = {} THEN <<>>
       ELSE LET m == RequiresMatchAt(s, ls, Min(starts))
            IN <<m.group>> \o RequiresFrom(s, ls, m.end)
RequiredVersions(content) == RequiresFrom(content, lower(content), 1)

\* (faulty variant) a requirement equal to the target is reported too
RECURSIVE VersionWarningsAtLeast(_, _)
VersionWarningsAtLeast(required, target) ==
    IF required = <<>> THEN <<>>
    ELSE (IF compare_versions(Head(required), target).value >= 0
          THEN <<RequiresWarning(Head(required))>> ELSE <<>>)
         \o VersionWarningsAtLeast(Tail(required), target)

\* the loop over the matches, when no comparison raises
RECURSIVE VersionWarnings(_, _)
VersionWarnings(required, target) ==
    IF required = <<>> THEN <<>>
    ELSE (IF compare_versions(Head(required), target).value > 0
          THEN <<RequiresWarning(Head(required))>> ELSE <<>>)
         \o VersionWarnings(Tail(required), target)

\* the number of non-overlapping occurrences of needle in hay
RECURSIVE CountFrom(_, _, _)
CountFrom(hay, needle, i) ==
    LET j == IndexFrom(hay, needle, i)
    IN IF j = 0 THEN 0 ELSE 1 + CountFrom(hay, needle, j + Len(needle))

Repeat(w, n) == [i \in 1..n |-> w]

\* (faulty variant) one breaking-change and one deprecation warning per occurrence
PhraseWarningsPerOccurrence(content) ==
    Repeat(BreakingWarning, CountFrom(lower(content), "breaking change", 1))
    \o Repeat(DeprecatedWarning, CountFrom(lower(content), "deprecated", 1))

\* (faulty variant) the deprecation test comes before the breaking-change test
PhraseWarningsDeprecatedFirst(content) ==
    (IF Contains(lower(content), "deprecated") THEN <<DeprecatedWarning>> ELSE <<>>)
    \o (IF Contains(lower(content), "breaking change") THEN <<BreakingWarning>> ELSE <<>>)

\* the two substring tests that follow the loop
PhraseWarnings(content) ==
    (IF Contains(lower(content), "breaking change") THEN <<BreakingWarning>> ELSE <<>>)
    \o (IF Contains(lower(content), "deprecated") THEN <<DeprecatedWarning>> ELSE <<>>)

\* (faulty variant) a requirement is compared against the current version too
check_compatibility_current(content, current, target) ==
    LET required == RequiredVersions(content)
    IN IF \E k \in 1..Len(required) :
              compare_versions(required[k], target).raised
              \/ compare_versions(required[k], current).raised
       THEN [raised |-> TRUE, warnings |-> <<>>]
       ELSE [raised |-> FALSE,
             warnings |-> VersionWarnings(required, current)
                          \o VersionWarnings(required, target) \o PhraseWarnings(content)]

\* (faulty variant) the target version is parsed before the text is scanned
check_compatibility_validating(content, current, target) ==
    LET required == RequiredVersions(content)
    IN IF parse_version(target).ok
       THEN [raised |-> FALSE,
             warnings |-> VersionWarnings(required, target) \o PhraseWarnings(content)]
       ELSE [raised |-> TRUE, warnings |-> <<>>]

\* _check_compatibility(content, current_jira_version, target_jira_version):
\* raised when a comparison raises ValueError, else the list of warnings
check_compatibility(content, current, target) ==
    LET required == RequiredVersions(content)
    IN IF \E k \in 1..Len(required) : compare_versions(required[k], target).raised
       THEN [raised |-> TRUE, warnings |-> <<>>]
       ELSE [raised |-> FALSE,
             warnings |-> VersionWarnings(required, target) \o PhraseWarnings(content)]

---------------------------------------------------------------------------
(* ReleaseNotesAnalyzer.analyze_release_notes *)

\* f"**Version {version}:**\n{content}"
Block(note) == "**Version " \o note.version \o ":**\n" \o note.notes

NoAdminNotes == "No admin-relevant changes found."
NoUserNotes == "No user-relevant changes found."

\* the returned dict
ResultOf(admins, users, warnings) ==
    [admin_notes |-> IF admins # <<>> THEN join(admins, "\n\n") ELSE NoAdminNotes,
     user_notes |-> IF users # <<>> THEN join(users, "\n\n") ELSE NoUserNotes,
     compatibility_warnings |-> IF warnings # <<>> THEN join(warnings, "\n\n") ELSE ""]

---------------------------------------------------------------------------
(* analyze_with_openai (src/app.py): the parser of wire format A *)

Bullet == "@"

None == [isNone |-> TRUE, label |-> ""]
Some(label) == [isNone |-> FALSE, label |-> label]

MainSections ==
    [line \in {"Admin Changes:", "User Changes:", "Compatibility Warnings:"} |->
        IF line = "Admin Changes:" THEN "admin"
        ELSE IF line = "User Changes:" THEN "user"
        ELSE "compatibility"]

RangeChars == DigitSet \cup {".", ",", " "}
DottedChars == DigitSet \cup {"."}

\* the group ([\d\., ]+(?:through|and)\s+[\d\.]+|[\d\.]+) tried at s[g]: the
\* range form first, then the single dotted version. The run [\d\., ]+ must be
\* taken whole, a shorter one is followed by a character of the run
VersionGroupAt(s, g) ==
    LET r == Run(s, g, RangeChars)
        h == g + r
        word == IF At(s, h, "through") THEN "through" ELSE IF At(s, h, "and") THEN "and" ELSE ""
        w == Run(s, h + Len(word), Whitespace)
        t == h + Len(word) + w
        n == Run(s, t, DottedChars)
        single == Run(s, g, DottedChars)
    IN IF r >= 1 /\ word # "" /\ w >= 1 /\ n >= 1
       THEN [found |-> TRUE, group |-> SubSeq(s, g, t + n - 1), end |-> t + n]
       ELSE IF single >= 1
       THEN [found |-> TRUE, group |-> SubSeq(s, g, g + single - 1), end |-> g + single]
       ELSE NoMatch

\* one attempt of Version[s]?\s+(...) at s[i]: \s+ takes the longest run of
\* whitespace that lets the group match
VersionMatchAt(s, i) ==
    IF ~At(s, i, "Version") THEN NoMatch
    ELSE LET q == IF At(s, i + 7, "s") THEN i + 8 ELSE i + 7
             w == Run(s, q, Whitespace)
             ks == {k \in 1..w : VersionGroupAt(s, q + k).found}
         IN IF ks = {} THEN NoMatch
            ELSE VersionGroupAt(s, q + (CHOOSE k \in ks : \A j \in ks : j <= k))

\* version_match.group(1) if version_match else 'N/A', for re.search
ExtractVersion(content) ==
    LET starts == {i \in 1..Len(content) : VersionMatchAt(content, i).found}
    IN IF starts = {} THEN "N/A" ELSE VersionMatchAt(content, Min(starts)).group

ImportanceWords == <<"security", "vulnerability", "breaking", "compatibility", "critical">>

\* (faulty variant) the content is searched as written, not lower-cased
ImportanceOfCaseSensitive(content) ==
    IF \E i \in 1..Len(ImportanceWords) : Contains(content, ImportanceWords[i])
    THEN "major" ELSE "minor"

ImportanceOf(content) ==
    IF AnyKeywordIn(ImportanceWords, content) THEN "major" ELSE "minor"

\* (faulty variant) a bullet is recognised before a trailing colon is
LineClassBulletFirst(line) ==
    IF line \in DOMAIN MainSections THEN "main"
    ELSE IF StartsWith(line, Bullet) THEN "content"
    ELSE IF EndsWith(line, ":") THEN "subsection"
    ELSE "ignored"

\* the branch of the if/elif chain a trimmed, non-empty line takes
LineClass(line) ==
    IF line \in DOMAIN MainSections THEN "main"
    ELSE IF EndsWith(line, ":") THEN "subsection"
    ELSE IF StartsWith(line, Bullet) THEN "content"
    ELSE "ignored"

\* (faulty variant) a main-section header leaves the subsection as it is
SubsectionAfterMainKept == current_subsection

\* current_subsection after a main-section header
SubsectionAfterMain == None

CompatibilityItem(content) == [text |-> content]

\* (faulty variant) the label of the subsection counts for the importance too
ChangeItemSectionAware(content) ==
    [importance |-> IF ImportanceOf(content) = "major"
                       \/ ImportanceOf(current_subsection.label) = "major"
                    THEN "major" ELSE "minor",
     text |-> content,
     version |-> ExtractVersion(content),
     category |-> IF current_subsection.isNone \/ current_subsection.label = ""
                  THEN "General" ELSE current_subsection.label]

\* (faulty variant) 'General' stands in for a missing subsection only, an
\* empty label is kept
ChangeItemEmptyLabelKept(content) ==
    [importance |-> ImportanceOf(content),
     text |-> content,
     version |-> ExtractVersion(content),
     category |-> IF current_subsection.isNone THEN "General" ELSE current_subsection.label]

\* the item of a user/admin content line
ChangeItem(content) ==
    [importance |-> ImportanceOf(content),
     text |-> content,
     version |-> ExtractVersion(content),
     category |-> IF current_subsection.isNone \/ current_subsection.label = ""
                  THEN "General" ELSE current_subsection.label]

\* (faulty variant) an item met before any main-section header goes to the user bucket
ResultsAfterContentDefaultUser(content) ==
    IF current_main_section = "compatibility"
    THEN [results EXCEPT !.compatibility = Append(@, CompatibilityItem(content))]
    ELSE IF current_main_section = "none"
    THEN [results EXCEPT !.user = Append(@, ChangeItem(content))]
    ELSE [results EXCEPT ![current_main_section] = Append(@, ChangeItem(content))]

\* (faulty variant) a compatibility entry is filed as an admin item as well
ResultsAfterContentTwice(content) ==
    IF current_main_section = "compatibility"
    THEN [results EXCEPT !.compatibility = Append(@, CompatibilityItem(content)),
                         !.admin = Append(@, ChangeItem(content))]
    ELSE IF current_main_section # "none"
    THEN [results EXCEPT ![current_main_section] = Append(@, ChangeItem(content))]
    ELSE results

\* (faulty variant) the new item is put in front of the bucket
ResultsAfterContentPrepend(content) ==
    IF current_main_section = "compatibility"
    THEN [results EXCEPT !.compatibility = <<CompatibilityItem(content)>> \o @]
    ELSE IF current_main_section # "none"
    THEN [results EXCEPT ![current_main_section] = <<ChangeItem(content)>> \o @]
    ELSE results

\* the buckets after a content line
ResultsAfterContent(content) ==
    IF current_main_section = "compatibility"
    THEN [results EXCEPT !.compatibility = Append(@, CompatibilityItem(content))]
    ELSE IF current_main_section # "none"
    THEN [results EXCEPT ![current_main_section] = Append(@, ChangeItem(content))]
    ELSE results

---------------------------------------------------------------------------
(* analyze_with_ollama (src/app_ollama.py): the parser of wire format B *)

\* the phrases of the if/elif chain over a block, in its order, with the
\* bucket, the category and the importance keywords of each branch
OllamaHeaders ==
    <<"New Features", "Bugs Fixed", "Breaking Changes", "Compatibility Issues",
      "Other Noteworthy Changes">>
OllamaBuckets == <<"user", "user", "admin", "compatibility", "admin">>
OllamaCategories == <<"New Features", "Bug Fixes", "Breaking Changes", "", "Other Changes">>
OllamaKeywords ==
    << <<"breaking change", "deprecation", "security", "critical", "important">>,
       <<"security", "critical", "important", "fix">>,
       <<>>,
       <<>>,
       <<"security", "critical", "important", "update">> >>

\* the branch a block takes: the first phrase found anywhere in the block,
\* 0 when the block holds none
OllamaBranch(section) ==
    LET hits == {i \in 1..Len(OllamaHeaders) : Contains(section, OllamaHeaders[i])}
    IN IF hits = {} THEN 0 ELSE Min(hits)

\* items = section.replace('<phrase>:', '').strip().split('\n')
OllamaItems(section, branch) ==
    split(strip(replace(section, OllamaHeaders[branch] \o ":", "")), "\n")

\* item.strip().startswith(('*', '-'))
OllamaIsBullet(item) == StartsWith(strip(item), "*") \/ StartsWith(strip(item), "-")

\* content = item.strip('*- ').strip()
OllamaContent(item) == strip(StripChars(item, {"*", "-", " "}))

OllamaPlaceholder == "none specified in the provided release notes."

\* only the 'New Features' branch leaves out the placeholder bullet
OllamaKept(branch, content) == branch # 1 \/ lower(content) # OllamaPlaceholder

\* the 'Breaking Changes' branch grades every item major
OllamaImportance(branch, content) ==
    IF branch = 3 \/ AnyKeywordIn(OllamaKeywords[branch], content) THEN "major" ELSE "minor"

\* 'version': 'N/A' in every branch
OllamaVersion(content) == "N/A"

OllamaItem(branch, content) ==
    IF branch = 4 THEN [text |-> content]
    ELSE [importance |-> OllamaImportance(branch, content),
          text |-> content,
          version |-> OllamaVersion(content),
          category |-> OllamaCategories[branch]]

\* the bucket of the branch after the loop over the items of a block
RECURSIVE OllamaAppend(_, _, _)
OllamaAppend(bucket, branch, items) ==
    IF items = <<>> THEN bucket
    ELSE LET content == OllamaContent(Head(items))
         IN IF OllamaIsBullet(Head(items)) /\ OllamaKept(branch, content)
            THEN OllamaAppend(Append(bucket, OllamaItem(branch, content)), branch, Tail(items))
            ELSE OllamaAppend(bucket, branch, Tail(items))

\* the buckets and current_section after a non-blank block
OllamaResultsAfter(section) ==
    LET branch == OllamaBranch(section)
    IN IF branch = 0 THEN results
       ELSE [results EXCEPT ![OllamaBuckets[branch]] =
                                OllamaAppend(@, branch, OllamaItems(section, branch))]
OllamaSectionAfter(section) ==
    IF OllamaBranch(section) = 0 THEN current_section
    ELSE OllamaBuckets[OllamaBranch(section)]

---------------------------------------------------------------------------
(* Inputs of _compare_versions: dotted strings of 1..MaxParts components *)

ComponentNumbers == {0, 9, 10}
GoodComponents == {str(n) : n \in ComponentNumbers}
BadComponents == {"x", ""}
Components == GoodComponents \cup BadComponents

PartLists == UNION {[1..n -> Components] : n \in 1..MaxParts}

---------------------------------------------------------------------------
(* Inputs of _check_compatibility and analyze_release_notes: note texts     *)
(* written from fragments; a fragment records the requirement it states and *)
(* whether it announces a breaking change or a deprecation                  *)

Dotted(ns) == join([i \in 1..Len(ns) |-> str(ns[i])], ".")

Fragment(text, req, brk, dep) == [text |-> text, req |-> req, brk |-> brk, dep |-> dep]

FragPlain == Fragment("Fixed a typo", <<>>, FALSE, FALSE)
FragSecurity == Fragment("Security patch", <<>>, FALSE, FALSE)
FragRebuilt == Fragment("Rebuilt the index", <<>>, FALSE, FALSE)
FragUiConfig == Fragment("UI configuration page", <<>>, FALSE, FALSE)
FragAccess == Fragment("Improved access logs", <<>>, FALSE, FALSE)
FragReqHigh == Fragment("requires Jira " \o Dotted(<<10, 0, 0>>), <<10, 0, 0>>, FALSE, FALSE)
FragReqEqual == Fragment("REQUIRES  JIRA " \o Dotted(<<10, 5, 0>>), <<10, 5, 0>>, FALSE, FALSE)
FragBreaking == Fragment("Breaking Change ahead", <<>>, TRUE, FALSE)
FragDeprecated == Fragment("old API DEPRECATED", <<>>, FALSE, TRUE)

ContentOf(fs) == join([i \in 1..Len(fs) |-> fs[i].text], ". ")

CompatFragments == {FragPlain, FragSecurity, FragReqHigh, FragReqEqual, FragBreaking, FragDeprecated}
CompatFragLists == UNION {[1..n -> CompatFragments] : n \in 0..MaxFrags}

\* target versions: dotted numbers, and one string that is no version
TargetNumbers == {<<9, 4, 0>>, <<10, 5, 0>>, <<10>>}
GoodTargets == {Dotted(t) : t \in TargetNumbers}
BadTargets == {"ten"}
Targets == GoodTargets \cup BadTargets
CurrentVersions == {"9.0.0", "ten"}

AnalyzerFragLists ==
    {<<FragPlain>>, <<FragSecurity>>, <<FragRebuilt>>, <<FragUiConfig>>, <<FragAccess>>,
     <<FragReqHigh>>, <<FragBreaking, FragDeprecated>>}
NoteTexts == {ContentOf(fs) : fs \in AnalyzerFragLists}
NoteVersions == {"1.0", "2.0"}
Notes == [version : NoteVersions, notes : NoteTexts]
NoteLists == UNION {[1..n -> Notes] : n \in 0..MaxNotes}

\* notes about hazards: requirements written with two, three and four
\* components, two requirements in one text, a phrase ahead of a requirement,
\* the deprecation ahead of the breaking change
FragReqShort == Fragment("requires Jira " \o Dotted(<<11, 0>>), <<11, 0>>, FALSE, FALSE)
FragReqLong == Fragment("requires Jira " \o Dotted(<<10, 3, 0, 1>>), <<10, 3, 0, 1>>, FALSE, FALSE)
HazardFragLists ==
    {<<FragPlain>>, <<FragReqHigh, FragReqEqual>>, <<FragBreaking, FragReqHigh>>,
     <<FragDeprecated, FragBreaking>>, <<FragReqShort>>, <<FragReqLong>>}
HazardTexts == {ContentOf(fs) : fs \in HazardFragLists}
HazardNotes == [version : {"1.0"}, notes : HazardTexts]
HazardNoteLists == UNION {[1..n -> HazardNotes] : n \in 0..MaxNotes}
HazardTargetNumbers == {<<9, 4, 0>>, <<10, 3, 0>>, <<10, 5>>}
HazardBadTargets == {"ten", ""}
HazardTargets == {Dotted(t) : t \in HazardTargetNumbers} \cup HazardBadTargets

---------------------------------------------------------------------------
(* Inputs of the wire-format-A parser: answers of up to MaxLines lines; a    *)
(* line records what it is meant as (kind) and what it carries (arg: the    *)
(* bucket of a main header, the label of a subsection, the text of a bullet) *)

SourceLine(text, kind, arg) == [text |-> text, kind |-> kind, arg |-> arg]

LineAdmin == SourceLine("Admin Changes:", "main", "admin")
LineUser == SourceLine("User Changes:", "main", "user")
LineCompat == SourceLine("Compatibility Warnings:", "main", "compatibility")
LineSub == SourceLine("Security Improvements:", "subsection", "Security Improvements")
LineColon == SourceLine(":", "subsection", "")
LineBulletColon == SourceLine(Bullet \o " Note:", "subsection", Bullet \o " Note")
LineBullet == SourceLine(Bullet \o " Version 9.6.0 addresses a known CVE", "content",
                         "Version 9.6.0 addresses a known CVE")
LineBulletPadded == SourceLine("  " \o Bullet \o " New dashboard ", "content", "New dashboard")
LineFree == SourceLine("Here is the summary", "ignored", "")
LineBlank == SourceLine("", "blank", "")

SourceLines == {LineAdmin, LineUser, LineCompat, LineSub, LineColon, LineBulletColon,
                LineBullet, LineBulletPadded, LineFree, LineBlank}
Answers == UNION {[1..n -> SourceLines] : n \in 0..MaxLines}
AnswerText(src) == join([i \in 1..Len(src) |-> src[i].text], "\n")

\* Answers written as one main-section header, at most one subsection header
\* and 1..MaxBullets bullets; a content records the version it names ('N/A'
\* when it names none) and whether it mentions a hazard word
Content(text, version, major) == [text |-> text, version |-> version, major |-> major]
ContentCve == Content("Version 9.6.0 addresses a known CVE", "9.6.0", FALSE)
ContentDashboard == Content("New dashboard", "N/A", FALSE)
ContentCritical == Content("Fixes a CRITICAL bug", "N/A", TRUE)
ContentRange == Content("Security fix in Versions 9.1 through 9.3", "9.1 through 9.3", TRUE)
ContentList == Content("Versions 9.1, 9.2 and 9.3 are affected", "9.1, 9.2 and 9.3", FALSE)
ContentSentence == Content("Fixed in Version 9.6.0.", "9.6.0", FALSE)
ContentNumbering == Content("Version numbering changed", "N/A", FALSE)
Contents == {ContentCve, ContentDashboard, ContentCritical, ContentRange, ContentList,
             ContentSentence, ContentNumbering}
ContentLine(c) == SourceLine(Bullet \o " " \o c.text, "content", c.text)
ItemPrefixes ==
    {<<h>> : h \in {LineAdmin, LineUser, LineCompat}}
        \cup {<<h, LineSub>> : h \in {LineAdmin, LineUser, LineCompat}}
ItemAnswers ==
    {p \o bs : p \in ItemPrefixes,
               bs \in UNION {[1..n -> {ContentLine(c) : c \in Contents}] : n \in 1..MaxBullets}}

\* Answers written as one main-section header and 1..MaxBullets bullets, the
\* marker followed by no space, one space or several
BulletGaps == {"", " ", "   "}
BulletTexts == {"Fixed login", "New dashboard"}
BulletLines == {SourceLine(Bullet \o gap \o d, "content", d) : gap \in BulletGaps, d \in BulletTexts}
BulletAnswers ==
    {<<h>> \o bs : h \in {LineAdmin, LineUser, LineCompat},
                   bs \in UNION {[1..n -> BulletLines] : n \in 1..MaxBullets}}

---------------------------------------------------------------------------
(* Inputs of the wire-format-B parser: answers of up to MaxLines lines; the  *)
(* arg of a header line is its bucket, the arg of a bullet line its text     *)

LineNewFeatures == SourceLine("New Features:", "header", "user")
LineBugsFixed == SourceLine("Bugs Fixed:", "header", "user")
LineBreaking == SourceLine("Breaking Changes:", "header", "admin")
LineCompatIssues == SourceLine("Compatibility Issues:", "header", "compatibility")
LineOther == SourceLine("Other Noteworthy Changes:", "header", "admin")
LineDashVersion == SourceLine("- Added dark mode (Version 9.6.0)", "bullet",
                              "Added dark mode (Version 9.6.0)")
LineStarPanel == SourceLine("* Fixed crash in New Features panel", "bullet",
                            "Fixed crash in New Features panel")
LineDashNone == SourceLine("- None specified in the provided release notes.", "placeholder",
                           "None specified in the provided release notes.")

OllamaSourceLines == {LineNewFeatures, LineBugsFixed, LineBreaking, LineCompatIssues,
                      LineOther, LineDashVersion, LineStarPanel, LineDashNone,
                      LineFree, LineBlank}
OllamaAnswers == UNION {[1..n -> OllamaSourceLines] : n \in 0..MaxLines}

\* Answers that follow the template of SYSTEM_PROMPT: its four headers in its
\* order, each with 1..MaxBullets bullets under it, a blank line between the
\* sections
LineCompatBreaking == SourceLine("Compatibility Issues and Breaking Changes:", "header",
                                 "compatibility")
LineDashLogin == SourceLine("- Fixed login crash (Version 9.6.1)", "bullet",
                            "Fixed login crash (Version 9.6.1)")
LineDashRemoved == SourceLine("- Removed legacy API (Version 10.0.0)", "bullet",
                              "Removed legacy API (Version 10.0.0)")
LineDashRequires == SourceLine("- Requires Jira 10.3.0 (Version 10.0.0)", "bullet",
                               "Requires Jira 10.3.0 (Version 10.0.0)")
LineDashTranslations == SourceLine("- Updated translations", "bullet", "Updated translations")

BulletsFrom(pool) == UNION {[1..n -> pool] : n \in 1..MaxBullets}
TemplateAnswers ==
    {<<LineNewFeatures>> \o nf \o <<LineBlank, LineBugsFixed>> \o bf
       \o <<LineBlank, LineCompatBreaking>> \o cb \o <<LineBlank, LineOther>> \o ot :
         nf \in BulletsFrom({LineDashVersion, LineDashNone}),
         bf \in BulletsFrom({LineDashLogin}),
         cb \in BulletsFrom({LineDashRemoved, LineDashRequires}),
         ot \in BulletsFrom({LineDashTranslations})}

---------------------------------------------------------------------------
(* The calls *)

NoResult == [raised |-> FALSE, value |-> 2]
NoWarnings == [raised |-> FALSE, warnings |-> <<>>]
NoDict == [admin_notes |-> "", user_notes |-> "", compatibility_warnings |-> ""]
NoCall == [made |-> FALSE, raised |-> FALSE, result |-> NoDict]

IdleCompare ==
    /\ v1_src = <<>> /\ v2_src = <<>> /\ v1 = "" /\ v2 = ""
    /\ cmp = NoResult /\ cpc = "idle"
    /\ v3_src = <<>> /\ v3 = "" /\ calls = <<>>
IdleCompat ==
    /\ cc_frags = <<>> /\ cc_content = "" /\ cc_target = ""
    /\ cc_out = NoWarnings /\ ccpc = "idle"
IdleAnalyzer ==
    /\ release_notes = <<>> /\ current_jira_version = "" /\ target_jira_version = ""
    /\ note_idx = 0 /\ admin_notes = <<>> /\ user_notes = <<>>
    /\ compatibility_warnings = <<>> /\ result = NoDict /\ apc = "idle"
    /\ first = NoCall

EmptyResults == [user |-> <<>>, admin |-> <<>>, compatibility |-> <<>>]
IdleOllama == current_section = "none" /\ opc = "idle"
IdleParser ==
    /\ text_src = <<>> /\ analysis_text = "" /\ sections = <<>> /\ lines = <<>>
    /\ current_main_section = "none" /\ current_subsection = None
    /\ results = EmptyResults /\ ppc = "idle"

\* _compare_versions(v1, v2)
InitCompare ==
    /\ v1_src \in PartLists
    /\ v2_src \in PartLists
    /\ v1 = join(v1_src, ".")
    /\ v2 = join(v2_src, ".")
    /\ cmp = NoResult
    /\ cpc = "call"
    /\ v3_src = <<>> /\ v3 = "" /\ calls = <<>>
    /\ IdleCompat /\ IdleAnalyzer /\ IdleParser /\ IdleOllama

CompareVersions ==
    /\ cpc = "call"
    /\ cmp' = compare_versions(v1, v2)
    /\ cpc' = "done"
    /\ UNCHANGED <<v1_src, v2_src, v1, v2, v3_src, v3, calls,
                   compatVars, analyzerVars, parserVars, ollamaVars>>

NextCompare == CompareVersions

SpecCompare == InitCompare /\ [][NextCompare]_vars

\* a run of calls of _compare_versions on three well-formed versions: the
\* pairs of arguments, by their place among the three, in the order of the calls
OrderPairs == << <<1, 2>>, <<2, 1>>, <<1, 1>>, <<2, 3>>, <<1, 3>> >>

WellFormedPartLists == UNION {[1..n -> GoodComponents] : n \in 1..MaxParts}

InitOrder ==
    /\ v1_src \in WellFormedPartLists
    /\ v2_src \in WellFormedPartLists
    /\ v3_src \in WellFormedPartLists
    /\ v1 = join(v1_src, ".")
    /\ v2 = join(v2_src, ".")
    /\ v3 = join(v3_src, ".")
    /\ cmp = NoResult
    /\ calls = <<>>
    /\ cpc = "order"
    /\ IdleCompat /\ IdleAnalyzer /\ IdleParser /\ IdleOllama

\* the next call of the run
OrderCall ==
    /\ cpc = "order"
    /\ Len(calls) < Len(OrderPairs)
    /\ LET args == <<v1, v2, v3>>
           pair == OrderPairs[Len(calls) + 1]
       IN /\ cmp' = compare_versions(args[pair[1]], args[pair[2]])
          /\ calls' = Append(calls, cmp')
    /\ UNCHANGED <<v1_src, v2_src, v1, v2, v3_src, v3, cpc,
                   compatVars, analyzerVars, parserVars, ollamaVars>>

\* the run is over
OrderDone ==
    /\ cpc = "order"
    /\ Len(calls) = Len(OrderPairs)
    /\ cpc' = "ordered"
    /\ UNCHANGED <<v1_src, v2_src, v1, v2, cmp, v3_src, v3, calls,
                   compatVars, analyzerVars, parserVars, ollamaVars>>

NextOrder == OrderCall \/ OrderDone

SpecOrder == InitOrder /\ [][NextOrder]_vars

\* _check_compatibility(content, current_jira_version, target_jira_version)
InitCompat ==
    /\ cc_frags \in CompatFragLists
    /\ cc_content = ContentOf(cc_frags)
    /\ cc_target \in Targets
    /\ cc_out = NoWarnings
    /\ ccpc = "call"
    /\ IdleCompare /\ IdleAnalyzer /\ IdleParser /\ IdleOllama

CheckCompatibility ==
    /\ ccpc = "call"
    /\ cc_out' = check_compatibility(cc_content, "9.0.0", cc_target)
    /\ ccpc' = "done"
    /\ UNCHANGED <<cc_frags, cc_content, cc_target, compareVars, analyzerVars, parserVars, ollamaVars>>

NextCompat == CheckCompatibility

SpecCompat == InitCompat /\ [][NextCompat]_vars

\* analyze_release_notes(release_notes, current_jira_version, target_jira_version)
InitAnalyzer ==
    /\ release_notes \in NoteLists
    /\ current_jira_version \in CurrentVersions
    /\ target_jira_version \in Targets
    /\ note_idx = 0
    /\ admin_notes = <<>>
    /\ user_notes = <<>>
    /\ compatibility_warnings = <<>>
    /\ result = NoDict
    /\ apc = "loop"
    /\ first = NoCall
    /\ IdleCompare /\ IdleCompat /\ IdleParser /\ IdleOllama

\* (faulty variant) the user test is an elif of the admin test
UserNotesAfterElif(note) ==
    IF ~is_admin_relevant(note.notes) /\ is_user_relevant(note.notes)
    THEN Append(user_notes, Block(note)) ELSE user_notes

\* user_notes after the note's round of the loop
UserNotesAfter(note) ==
    IF is_user_relevant(note.notes) THEN Append(user_notes, Block(note)) ELSE user_notes

\* (faulty variant) the new block is put in front
AdminNotesAfterPrepend(note) ==
    IF is_admin_relevant(note.notes) THEN <<Block(note)>> \o admin_notes ELSE admin_notes

\* admin_notes after the note's round of the loop
AdminNotesAfter(note) ==
    IF is_admin_relevant(note.notes) THEN Append(admin_notes, Block(note)) ELSE admin_notes

\* one round of the loop over release_notes; a ValueError of the version
\* comparison leaves the call
ProcessNote ==
    /\ apc = "loop"
    /\ note_idx < Len(release_notes)
    /\ LET note == release_notes[note_idx + 1]
           compatibility_issues ==
               check_compatibility(note.notes, current_jira_version, target_jira_version)
       IN IF compatibility_issues.raised
          THEN /\ apc' = "raised"
               /\ UNCHANGED <<note_idx, admin_notes, user_notes, compatibility_warnings>>
          ELSE /\ compatibility_warnings' =
                      compatibility_warnings \o compatibility_issues.warnings
               /\ admin_notes' = AdminNotesAfter(note)
               /\ user_notes' = UserNotesAfter(note)
               /\ note_idx' = note_idx + 1
               /\ apc' = "loop"
    /\ UNCHANGED <<release_notes, current_jira_version, target_jira_version, result,
                   first, compareVars, compatVars, parserVars, ollamaVars>>

\* (faulty variant) an empty bucket is returned as the empty string
ReturnedDictNoPlaceholder ==
    [admin_notes |-> join(admin_notes, "\n\n"),
     user_notes |-> join(user_notes, "\n\n"),
     compatibility_warnings |-> join(compatibility_warnings, "\n\n")]

\* the dict the return statement builds
ReturnedDict == ResultOf(admin_notes, user_notes, compatibility_warnings)

\* the return statement after the loop
Return ==
    /\ apc = "loop"
    /\ note_idx = Len(release_notes)
    /\ result' = ReturnedDict
    /\ apc' = "done"
    /\ UNCHANGED <<release_notes, current_jira_version, target_jira_version, note_idx,
                   admin_notes, user_notes, compatibility_warnings, first, compareVars,
                   compatVars, parserVars, ollamaVars>>

NextAnalyzer == ProcessNote \/ Return

SpecAnalyzer == InitAnalyzer /\ [][NextAnalyzer]_vars

\* analyze_release_notes on notes that state requirements, breaking changes
\* and deprecations, called a second time with another current version
InitHazards ==
    /\ release_notes \in HazardNoteLists
    /\ current_jira_version \in CurrentVersions
    /\ target_jira_version \in HazardTargets
    /\ note_idx = 0
    /\ admin_notes = <<>>
    /\ user_notes = <<>>
    /\ compatibility_warnings = <<>>
    /\ result = NoDict
    /\ apc = "loop"
    /\ first = NoCall
    /\ IdleCompare /\ IdleCompat /\ IdleParser /\ IdleOllama

\* the first call has returned or raised: the caller keeps its outcome and
\* calls again with the same notes and target and another current version
CallAgain ==
    /\ apc \in {"done", "raised"}
    /\ ~first.made
    /\ first' = [made |-> TRUE, raised |-> apc = "raised", result |-> result]
    /\ \E current \in CurrentVersions \ {current_jira_version} :
           current_jira_version' = current
    /\ note_idx' = 0
    /\ admin_notes' = <<>>
    /\ user_notes' = <<>>
    /\ compatibility_warnings' = <<>>
    /\ result' = NoDict
    /\ apc' = "loop"
    /\ UNCHANGED <<release_notes, target_jira_version,
                   compareVars, compatVars, parserVars, ollamaVars>>

NextHazards == ProcessNote \/ Return \/ CallAgain

SpecHazards == InitHazards /\ [][NextHazards]_vars

\* analyze_with_openai, once the model has answered analysis_text
InitParser ==
    /\ text_src \in Answers
    /\ analysis_text = AnswerText(text_src)
    /\ sections = <<>>
    /\ lines = <<>>
    /\ current_main_section = "none"
    /\ current_subsection = None
    /\ results = EmptyResults
    /\ ppc = "split"
    /\ IdleCompare /\ IdleCompat /\ IdleAnalyzer /\ IdleOllama

\* sections = analysis_text.split('\n\n')
SplitSections ==
    /\ ppc = "split"
    /\ sections' = split(analysis_text, "\n\n")
    /\ ppc' = "parse"
    /\ UNCHANGED <<text_src, analysis_text, lines, current_main_section,
                   current_subsection, results, compareVars, compatVars, analyzerVars, ollamaVars>>

\* the outer loop takes the next block: a blank one is skipped, another one
\* is trimmed and cut into lines
NextSection ==
    /\ ppc = "parse"
    /\ lines = <<>>
    /\ sections # <<>>
    /\ lines' = IF strip(Head(sections)) = "" THEN <<>>
                ELSE split(strip(Head(sections)), "\n")
    /\ sections' = Tail(sections)
    /\ UNCHANGED <<text_src, analysis_text, current_main_section, current_subsection,
                   results, ppc, compareVars, compatVars, analyzerVars, ollamaVars>>

\* one round of the inner loop
ProcessLine ==
    /\ ppc = "parse"
    /\ lines # <<>>
    /\ LET line == strip(Head(lines))
           class == IF line = "" THEN "empty" ELSE LineClass(line)
       IN /\ current_main_section' =
                 IF class = "main" THEN MainSections[line] ELSE current_main_section
          /\ current_subsection' =
                 IF class = "main" THEN SubsectionAfterMain
                 ELSE IF class = "subsection" THEN Some(SubSeq(line, 1, Len(line) - 1))
                 ELSE current_subsection
          /\ results' =
                 IF class = "content"
                 THEN ResultsAfterContent(strip(SubSeq(line, 3, Len(line))))
                 ELSE results
    /\ lines' = Tail(lines)
    /\ UNCHANGED <<text_src, analysis_text, sections, ppc,
                   compareVars, compatVars, analyzerVars, ollamaVars>>

\* return results
ReturnResults ==
    /\ ppc = "parse"
    /\ lines = <<>>
    /\ sections = <<>>
    /\ ppc' = "done"
    /\ UNCHANGED <<text_src, analysis_text, sections, lines, current_main_section,
                   current_subsection, results, compareVars, compatVars, analyzerVars, ollamaVars>>

\* the model call, or reading its answer, raises: the except clause reports
\* the error with st.error and returns three empty buckets
HandleError ==
    /\ ppc = "split"
    /\ results' = EmptyResults
    /\ ppc' = "failed"
    /\ UNCHANGED <<text_src, analysis_text, sections, lines, current_main_section,
                   current_subsection, compareVars, compatVars, analyzerVars, ollamaVars>>

NextParser == SplitSections \/ NextSection \/ ProcessLine \/ ReturnResults \/ HandleError

SpecParser == InitParser /\ [][NextParser]_vars

\* the same call on an answer written as header, subsection, bullets
InitParserItems ==
    /\ text_src \in ItemAnswers
    /\ analysis_text = AnswerText(text_src)
    /\ sections = <<>>
    /\ lines = <<>>
    /\ current_main_section = "none"
    /\ current_subsection = None
    /\ results = EmptyResults
    /\ ppc = "split"
    /\ IdleCompare /\ IdleCompat /\ IdleAnalyzer /\ IdleOllama

SpecParserItems == InitParserItems /\ [][NextParser]_vars

\* the same call on an answer written as header and bullets, with the gap
\* after the marker varied
InitParserBullets ==
    /\ text_src \in BulletAnswers
    /\ analysis_text = AnswerText(text_src)
    /\ sections = <<>>
    /\ lines = <<>>
    /\ current_main_section = "none"
    /\ current_subsection = None
    /\ results = EmptyResults
    /\ ppc = "split"
    /\ IdleCompare /\ IdleCompat /\ IdleAnalyzer /\ IdleOllama

SpecParserBullets == InitParserBullets /\ [][NextParser]_vars

\* analyze_with_ollama, once the model has answered analysis_text
InitOllama ==
    /\ text_src \in OllamaAnswers
    /\ analysis_text = AnswerText(text_src)
    /\ sections = <<>>
    /\ results = EmptyResults
    /\ current_section = "none"
    /\ opc = "split"
    /\ lines = <<>> /\ current_main_section = "none" /\ current_subsection = None
    /\ ppc = "idle"
    /\ IdleCompare /\ IdleCompat /\ IdleAnalyzer

\* sections = analysis_text.split('\n\n')
OllamaSplitSections ==
    /\ opc = "split"
    /\ sections' = split(analysis_text, "\n\n")
    /\ opc' = "parse"
    /\ UNCHANGED <<text_src, analysis_text, lines, current_main_section, current_subsection,
                   results, ppc, current_section, compareVars, compatVars, analyzerVars>>

\* one round of the loop over the blocks: a blank block is skipped, another
\* one takes the first branch whose phrase it holds, or none
OllamaSection ==
    /\ opc = "parse"
    /\ sections # <<>>
    /\ IF strip(Head(sections)) = ""
       THEN UNCHANGED <<results, current_section>>
       ELSE /\ results' = OllamaResultsAfter(Head(sections))
            /\ current_section' = OllamaSectionAfter(Head(sections))
    /\ sections' = Tail(sections)
    /\ UNCHANGED <<text_src, analysis_text, lines, current_main_section, current_subsection,
                   ppc, opc, compareVars, compatVars, analyzerVars>>

\* return results
OllamaReturnResults ==
    /\ opc = "parse"
    /\ sections = <<>>
    /\ opc' = "done"
    /\ UNCHANGED <<text_src, analysis_text, sections, lines, current_main_section,
                   current_subsection, results, ppc, current_section,
                   compareVars, compatVars, analyzerVars>>

\* st.error(body, *, icon=None) of streamlit: a call with another keyword
\* argument raises TypeError
StErrorRaises(keywords) == keywords \ {"icon"} # {}

\* the model call, or reading its answer, raises: the except clause reports
\* the error with st.error, calls st.error again with exc_info=True, and
\* returns three empty buckets if that call returns
OllamaHandleError ==
    /\ opc = "split"
    /\ IF StErrorRaises({}) \/ StErrorRaises({"exc_info"})
       THEN opc' = "raised" /\ results' = results
       ELSE opc' = "failed" /\ results' = EmptyResults
    /\ UNCHANGED <<text_src, analysis_text, sections, lines, current_main_section,
                   current_subsection, ppc, current_section,
                   compareVars, compatVars, analyzerVars>>

NextOllama ==
    OllamaSplitSections \/ OllamaSection \/ OllamaReturnResults \/ OllamaHandleError

SpecOllama == InitOllama /\ [][NextOllama]_vars

\* the same call on an answer that follows the template of SYSTEM_PROMPT
InitOllamaTemplate ==
    /\ text_src \in TemplateAnswers
    /\ analysis_text = AnswerText(text_src)
    /\ sections = <<>>
    /\ results = EmptyResults
    /\ current_section = "none"
    /\ opc = "split"
    /\ lines = <<>> /\ current_main_section = "none" /\ current_subsection = None
    /\ ppc = "idle"
    /\ IdleCompare /\ IdleCompat /\ IdleAnalyzer

SpecOllamaTemplate == InitOllamaTemplate /\ [][NextOllama]_vars

\* both parser entry points
InitParsers == InitParser \/ InitOllama
NextParsers == NextParser \/ NextOllama
SpecParsers == InitParsers /\ [][NextParsers]_vars

\* every call of the model
Init == InitCompare \/ InitOrder \/ InitCompat \/ InitAnalyzer \/ InitHazards \/ InitParser \/ InitOllama
Next == NextCompare \/ NextOrder \/ NextCompat \/ NextAnalyzer \/ CallAgain \/ NextParser \/ NextOllama
Spec == Init /\ [][Next]_vars

---------------------------------------------------------------------------
(* Claims about _compare_versions *)

\* the number a well-formed component writes; a list of well-formed
\* components and the numbers it writes
NumberOf == [c \in GoodComponents |-> CHOOSE n \in ComponentNumbers : str(n) = c]
WellFormed(src) == \A i \in 1..Len(src) : src[i] \in GoodComponents
Numbers(src) == [i \in 1..Len(src) |-> NumberOf[src[i]]]
Padded(ns, k) == [i \in 1..k |-> IF i <= Len(ns) THEN ns[i] ELSE 0]

\* the sign of the left-to-right comparison of two number lists, the shorter
\* padded with zeros
NumericSign(ms, ns) ==
    LET k == Max(Len(ms), Len(ns))
        a == Padded(ms, k)
        b == Padded(ns, k)
    IN IF a = b THEN 0
       ELSE LET j == CHOOSE j \in 1..k : a[j] # b[j] /\ \A i \in 1..(j - 1) : a[i] = b[i]
            IN IF a[j] > b[j] THEN 1 ELSE -1

\* C6: on well-formed dotted-integer strings _compare_versions returns the
\* sign (-1, 0 or 1) of the left-to-right numeric comparison of the component
\* lists, the shorter padded with zeros; compare("9.10.0","9.9.9") = 1,
\* compare("9.4","9.4.0") = 0 and compare("1.2","1.2.1") = -1.
C6_CompareIsNumericSign ==
    (cpc = "done" /\ WellFormed(v1_src) /\ WellFormed(v2_src)) =>
        /\ ~cmp.raised
        /\ cmp.value \in {-1, 0, 1}
        /\ cmp.value = NumericSign(Numbers(v1_src), Numbers(v2_src))
        /\ compare_versions("9.10.0", "9.9.9") = [raised |-> FALSE, value |-> 1]
        /\ compare_versions("9.4", "9.4.0") = [raised |-> FALSE, value |-> 0]
        /\ compare_versions("1.2", "1.2.1") = [raised |-> FALSE, value |-> -1]

\* a comparison the integer reading decides against the string reading, and
\* one decided by the padding
C6_Witness ==
    /\ cpc = "done"
    /\ \/ (v1 = "9.10" /\ v2 = "9.9" /\ cmp = [raised |-> FALSE, value |-> 1])
       \/ (v1 = "9" /\ v2 = "9.0" /\ cmp = [raised |-> FALSE, value |-> 0])

\* C7: when a dot-separated component of either argument is empty or not a
\* number, _compare_versions raises and returns no value, also when an
\* earlier well-formed component would decide the comparison.
C7_MalformedAlwaysRaises ==
    (cpc = "done" /\ (~WellFormed(v1_src) \/ ~WellFormed(v2_src))) => cmp.raised

\* "10.x" against "9.0": the first components already differ
C7_Witness == cpc = "done" /\ v1 = "10.x" /\ v2 = "9.0" /\ cmp.raised

\* a list of numbers without its trailing zeros
RECURSIVE StripZeros(_)
StripZeros(ns) ==
    IF ns # <<>> /\ ns[Len(ns)] = 0 THEN StripZeros(SubSeq(ns, 1, Len(ns) - 1)) ELSE ns

\* the outcome of the call of the run on the pair <<i, j>>
CallOn(i, j) == calls[CHOOSE k \in 1..Len(OrderPairs) : OrderPairs[k] = <<i, j>>]

\* C21: _compare_versions is a total preorder on well-formed version strings:
\* for all a, b, c, compare(a,b) = -compare(b,a); compare(a,a) = 0;
\* compare(a,b) >= 0 and compare(b,c) >= 0 imply compare(a,c) >= 0; and
\* compare(a,b) = 0 exactly when a and b are equal after removing trailing
\* zero components.
C21_CompareIsTotalPreorder ==
    cpc = "ordered" =>
        /\ \A k \in 1..Len(calls) : ~calls[k].raised /\ calls[k].value \in {-1, 0, 1}
        /\ CallOn(1, 2).value = 0 - CallOn(2, 1).value
        /\ CallOn(1, 1).value = 0
        /\ (CallOn(1, 2).value >= 0 /\ CallOn(2, 3).value >= 0) => CallOn(1, 3).value >= 0
        /\ CallOn(1, 2).value = 0 <=> StripZeros(Numbers(v1_src)) = StripZeros(Numbers(v2_src))

\* a chain the padding and the integer reading decide: 9.10 >= 9.9 >= 9.0,
\* and two writings of one version: 9.0 and 9
C21_Witness ==
    /\ cpc = "ordered"
    /\ \/ (v1 = "9.10" /\ v2 = "9.9" /\ v3 = "9.0"
           /\ CallOn(1, 2).value = 1 /\ CallOn(2, 3).value = 1 /\ CallOn(1, 3).value = 1)
       \/ (v1 = "9.0" /\ v2 = "9" /\ v3 = "0.9"
           /\ CallOn(1, 2).value = 0 /\ CallOn(2, 1).value = 0)

---------------------------------------------------------------------------
(* Claims about _check_compatibility *)

NumbersOfTarget == [t \in GoodTargets |-> CHOOSE ns \in TargetNumbers : Dotted(ns) = t]

\* the requirement req (a list of numbers) is above the target version
Exceeds(req, target) ==
    target \in GoodTargets /\ NumericSign(req, NumbersOfTarget[target]) = 1

\* the minimum-version warnings the fragments of a text call for, in order
RECURSIVE ExpectedRequiresWarnings(_, _)
ExpectedRequiresWarnings(fs, target) ==
    IF fs = <<>> THEN <<>>
    ELSE (IF Head(fs).req # <<>> /\ Exceeds(Head(fs).req, target)
          THEN <<RequiresWarning(Dotted(Head(fs).req))>> ELSE <<>>)
         \o ExpectedRequiresWarnings(Tail(fs), target)

IsRequiresWarning(w) == StartsWith(w, WarnSign \o " Warning: This version requires Jira ")
IsBreakingWarning(w) == w = BreakingWarning
IsDeprecatedWarning(w) == w = DeprecatedWarning

\* C4: for every occurrence of 'requires Jira X.Y.Z' in a note (in any case),
\* _check_compatibility emits one minimum-version warning, naming X.Y.Z, exactly
\* when X.Y.Z is strictly above the target version; a requirement equal to or
\* below the target emits none.
C4_RequiresWarningIffAboveTarget ==
    (ccpc = "done" /\ cc_target \in GoodTargets) =>
        /\ ~cc_out.raised
        /\ SelectSeq(cc_out.warnings, IsRequiresWarning)
               = ExpectedRequiresWarnings(cc_frags, cc_target)

\* 'requires Jira 10.0.0' with target 9.4.0: exactly one warning
C4_Witness ==
    /\ ccpc = "done"
    /\ cc_content = "requires Jira 10.0.0"
    /\ cc_target = "9.4.0"
    /\ cc_out.warnings = <<RequiresWarning("10.0.0")>>

\* C5: a note yields exactly one breaking-change warning when its text has
\* 'breaking change' (in any case) at least once and none otherwise, exactly one
\* deprecation warning when it has 'deprecated' at least once and none
\* otherwise, however often the phrases occur; both phrases and no version
\* requirement give exactly two warnings.
C5_OnePhraseWarningPerNote ==
    (ccpc = "done" /\ ~cc_out.raised) =>
        LET breaking == \E i \in 1..Len(cc_frags) : cc_frags[i].brk
            deprecated == \E i \in 1..Len(cc_frags) : cc_frags[i].dep
            required == \E i \in 1..Len(cc_frags) : cc_frags[i].req # <<>>
        IN /\ Len(SelectSeq(cc_out.warnings, IsBreakingWarning)) = (IF breaking THEN 1 ELSE 0)
           /\ Len(SelectSeq(cc_out.warnings, IsDeprecatedWarning)) = (IF deprecated THEN 1 ELSE 0)
           /\ (breaking /\ deprecated /\ ~required) => Len(cc_out.warnings) = 2

\* the phrase 'breaking change' twice and 'deprecated' once: two warnings
C5_Witness ==
    /\ ccpc = "done"
    /\ cc_frags = <<FragBreaking, FragBreaking, FragDeprecated>>
    /\ cc_out.warnings = <<BreakingWarning, DeprecatedWarning>>

---------------------------------------------------------------------------
(* Claims about analyze_release_notes *)

\* text contains one of the keywords, in any case, as a substring
MentionsAny(text, keywords) ==
    \E k \in 1..Len(keywords) : \E i \in 1..Len(text) :
        i + Len(keywords[k]) - 1 <= Len(text)
        /\ lower(SubSeq(text, i, i + Len(keywords[k]) - 1)) = keywords[k]

\* the drawn texts with an admin keyword, and those with a user keyword
AdminTexts == {t \in NoteTexts : MentionsAny(t, admin_keywords)}
UserTexts == {t \in NoteTexts : MentionsAny(t, user_keywords)}
AdminNote(note) == note.notes \in AdminTexts
UserNote(note) == note.notes \in UserTexts
InList(x, list) == \E i \in 1..Len(list) : list[i] = x
Blocks(notes) == [i \in 1..Len(notes) |-> Block(notes[i])]

\* how a drawn note text was written
FragsOf == [t \in NoteTexts |-> CHOOSE fs \in AnalyzerFragLists : ContentOf(fs) = t]

\* the note has a compatibility hazard for the target version
Hazard(note, target) ==
    \E i \in 1..Len(FragsOf[note.notes]) :
        LET f == FragsOf[note.notes][i]
        IN f.brk \/ f.dep \/ (f.req # <<>> /\ Exceeds(f.req, target))

\* C1: a note's block is in admin_notes exactly when its text contains an
\* admin keyword (in any case, as a substring) and in user_notes exactly when
\* it contains a user keyword; the two tests are independent, and a note with
\* no keyword of either list is in neither.
C1_BucketsFollowKeywords ==
    apc = "done" =>
        \A i \in 1..Len(release_notes) :
            /\ InList(Block(release_notes[i]), admin_notes) <=> AdminNote(release_notes[i])
            /\ InList(Block(release_notes[i]), user_notes) <=> UserNote(release_notes[i])

\* one note in both lists and one note in neither
C1_Witness ==
    /\ apc = "done"
    /\ \E i, j \in 1..Len(release_notes) :
        /\ InList(Block(release_notes[i]), admin_notes)
        /\ InList(Block(release_notes[i]), user_notes)
        /\ ~InList(Block(release_notes[j]), admin_notes)
        /\ ~InList(Block(release_notes[j]), user_notes)

\* C2: when a note matches, the returned admin_notes (user_notes) is the blocks
\* "**Version {version}:**\n{notes}" of the matching notes joined by a blank
\* line, in input order, each matching note once and no other note.
C2_BucketIsJoinedBlocksInOrder ==
    apc = "done" =>
        /\ (\E i \in 1..Len(release_notes) : AdminNote(release_notes[i])) =>
               result.admin_notes = join(Blocks(SelectSeq(release_notes, AdminNote)), "\n\n")
        /\ (\E i \in 1..Len(release_notes) : UserNote(release_notes[i])) =>
               result.user_notes = join(Blocks(SelectSeq(release_notes, UserNote)), "\n\n")

\* two different admin notes, of which only the second is a user note
C2_Witness ==
    /\ apc = "done"
    /\ Len(admin_notes) = 2
    /\ admin_notes[1] # admin_notes[2]
    /\ user_notes = <<admin_notes[2]>>
    /\ result.admin_notes = admin_notes[1] \o "\n\n" \o admin_notes[2]

\* C3: every returned dict has the three fields as strings; admin_notes and
\* user_notes are the placeholder exactly when no note matched, and
\* compatibility_warnings is "" exactly when no hazard was found; an empty
\* note list is not an error.
C3_ResultFieldsAlwaysPresent ==
    /\ apc = "done" =>
        /\ DOMAIN result = {"admin_notes", "user_notes", "compatibility_warnings"}
        /\ \A k \in DOMAIN result : result[k] \in STRING
        /\ result.admin_notes = NoAdminNotes
               <=> ~\E i \in 1..Len(release_notes) : AdminNote(release_notes[i])
        /\ result.user_notes = NoUserNotes
               <=> ~\E i \in 1..Len(release_notes) : UserNote(release_notes[i])
        /\ result.compatibility_warnings = ""
               <=> ~\E i \in 1..Len(release_notes) :
                       Hazard(release_notes[i], target_jira_version)
    /\ release_notes = <<>> =>
        /\ apc # "raised"
        /\ apc = "done" =>
               result = [admin_notes |-> NoAdminNotes, user_notes |-> NoUserNotes,
                         compatibility_warnings |-> ""]

\* the call on the empty list has returned
C3_Witness ==
    /\ apc = "done"
    /\ release_notes = <<>>
    /\ result.admin_notes = NoAdminNotes
    /\ result.compatibility_warnings = ""

---------------------------------------------------------------------------
(* Claims about the wire-format-A parser *)

Buckets == {"user", "admin", "compatibility"}
MaxOf(S) == CHOOSE x \in S : \A y \in S : y <= x

\* the main-section header line most recently written before line i of the
\* answer (0 when there is none), and the bucket it names
MainBefore(i) ==
    LET hs == {h \in 1..(i - 1) : text_src[h].kind = "main"}
    IN IF hs = {} THEN 0 ELSE MaxOf(hs)
BucketOfLine(i) == IF MainBefore(i) = 0 THEN "none" ELSE text_src[MainBefore(i)].arg

\* the content lines of the answer written under bucket b, in order
ContentLinesOf(b) ==
    SelectSeq([i \in 1..Len(text_src) |-> i],
              LAMBDA i : text_src[i].kind = "content" /\ BucketOfLine(i) = b)

\* the subsection header lines written between the main-section header of
\* line i and line i
SubsectionsBefore(i) ==
    {j \in (MainBefore(i) + 1)..(i - 1) : text_src[j].kind = "subsection"}

\* the label of the subsection header most recently written before line i
\* since its main-section header, 'General' when there is none
LabelOfLine(i) ==
    IF SubsectionsBefore(i) = {} THEN "General"
    ELSE text_src[MaxOf(SubsectionsBefore(i))].arg

\* the same, with 'General' for an empty label as well
CategoryOfLine(i) == IF LabelOfLine(i) = "" THEN "General" ELSE LabelOfLine(i)

\* C8: every content line is appended to the bucket named by the most
\* recently seen main-section header and to no other bucket; a content line
\* met before any main-section header is appended to none.
C8_BulletGoesToLastMainSection ==
    ppc = "done" =>
        \A b \in Buckets :
            [k \in 1..Len(results[b]) |-> results[b][k].text]
                = [k \in 1..Len(ContentLinesOf(b)) |-> text_src[ContentLinesOf(b)[k]].arg]

\* a bullet before any header, then one under 'User Changes:' and one under
\* 'Compatibility Warnings:'
C8_Witness ==
    /\ ppc = "done"
    /\ text_src = <<LineBullet, LineUser, LineBulletPadded>>
    /\ Len(results.user) = 1
    /\ results.user[1].text = "New dashboard"
    /\ results.admin = <<>>
    /\ results.compatibility = <<>>

\* C9 as written: the category of every user/admin item is the label of the
\* subsection header most recently read since its main-section header, and
\* 'General' only when there is no such header.
C9_CategoryIsLastLabel ==
    ppc = "done" =>
        \A b \in {"user", "admin"} :
            [k \in 1..Len(results[b]) |-> results[b][k].category]
                = [k \in 1..Len(ContentLinesOf(b)) |-> LabelOfLine(ContentLinesOf(b)[k])]

\* the categories of the user/admin items, an empty label counting as none
C9_Categories ==
    ppc = "done" =>
        \A b \in {"user", "admin"} :
            [k \in 1..Len(results[b]) |-> results[b][k].category]
                = [k \in 1..Len(ContentLinesOf(b)) |-> CategoryOfLine(ContentLinesOf(b)[k])]

\* a step that reads a main-section header leaves current_subsection none
C9_Reset ==
    (ppc = "parse" /\ lines # <<>> /\ strip(Head(lines)) \in DOMAIN MainSections)
        => current_subsection' = None

\* C9 (amended): a main-section header sets current_subsection to none, so a
\* user/admin item read after a main-section header and before the next
\* subsection header has category 'General', never the label of a subsection
\* read before that header; otherwise its category is the label of the
\* subsection header most recently read since that main-section header, or
\* 'General' when that label is empty (a line that is only ':').
C9_MainSectionResetsSubsection == []C9_Categories /\ [][C9_Reset]_vars

\* a subsection header, then a bullet right under 'User Changes:'
C9_Witness ==
    /\ ppc = "done"
    /\ text_src = <<LineSub, LineUser, LineBullet>>
    /\ Len(results.user) = 1
    /\ results.user[1].category = "General"

\* the line a text of the answer was written as
SourceOf == [t \in {strip(l.text) : l \in SourceLines} |->
                CHOOSE l \in SourceLines : strip(l.text) = t]
ItemCount == Len(results.user) + Len(results.admin) + Len(results.compatibility)

\* what a step that reads a line does, by the kind of the line
C10_Step ==
    (ppc = "parse" /\ lines # <<>>) =>
        LET src == SourceOf[strip(Head(lines))]
        IN CASE src.kind = "main" ->
                    /\ current_main_section' = src.arg
                    /\ results' = results
             [] src.kind = "subsection" ->
                    /\ current_subsection' = Some(src.arg)
                    /\ current_main_section' = current_main_section
                    /\ results' = results
             [] src.kind = "content" ->
                    /\ current_main_section' = current_main_section
                    /\ current_subsection' = current_subsection
                    /\ ItemCount' = ItemCount + (IF current_main_section = "none" THEN 0 ELSE 1)
             [] OTHER ->
                    UNCHANGED <<current_main_section, current_subsection, results>>

\* C10: a trimmed non-empty line is read as a main-section header when it is
\* one exactly, else as a subsection header (label: the line without its last
\* colon) when it ends in ':', else as content when it starts with the bullet,
\* else it is ignored; so a line that starts with the bullet and ends in ':' is
\* a subsection header and gives no item, and an ignored line changes neither
\* the parse state nor a bucket.
C10_LineClassPrecedence == [][C10_Step]_vars

\* the bullet line ending in ':' has been read as a subsection header
C10_Witness ==
    /\ ppc = "done"
    /\ text_src = <<LineAdmin, LineBulletColon, LineBullet>>
    /\ Len(results.admin) = 1
    /\ results.admin[1].category = Bullet \o " Note"

---------------------------------------------------------------------------
(* Claims about the items of the wire-format-A parser *)

\* what a content text was written to carry
FactsOf == [t \in {c.text : c \in Contents} |-> CHOOSE c \in Contents : c.text = t]

SecurityBlock ==
    "Admin Changes:\nSecurity Improvements:\n" \o Bullet \o " Version 9.6.0 addresses a known CVE"

\* the example block gives one admin item of the given importance with
\* category 'Security Improvements' and version '9.6.0', and nothing else
SecurityBlockGives(importance) ==
    (ppc = "done" /\ analysis_text = SecurityBlock) =>
        /\ Len(results.admin) = 1
        /\ results.admin[1].category = "Security Improvements"
        /\ results.admin[1].version = "9.6.0"
        /\ results.admin[1].importance = importance
        /\ results.user = <<>>
        /\ results.compatibility = <<>>

C13_VersionIsTheNamedToken ==
    ppc = "done" =>
        \A b \in {"user", "admin"} : \A k \in 1..Len(results[b]) :
            results[b][k].version = FactsOf[results[b][k].text].version

\* in every returned bucket, the items of two bullet lines routed to it stand
\* in the order of the lines
C15_SourceOrder ==
    ppc = "done" =>
        \A b \in Buckets :
            LET ls == ContentLinesOf(b)
            IN /\ Len(results[b]) = Len(ls)
               /\ \A i, j \in 1..Len(ls) :
                      i < j => /\ results[b][i].text = text_src[ls[i]].arg
                               /\ results[b][j].text = text_src[ls[j]].arg

\* no step moves or removes an item of a bucket: a new item goes last
C15_AppendOnly ==
    \A b \in Buckets :
        /\ Len(results'[b]) >= Len(results[b])
        /\ SubSeq(results'[b], 1, Len(results[b])) = results[b]

\* C15: in each of the three returned buckets the items appear in the order
\* of their bullet lines in the text: if bullet line a precedes bullet line b
\* and both are routed to the same bucket, a's item precedes b's item.
C15_ItemsInSourceOrder == []C15_SourceOrder /\ [][C15_AppendOnly]_vars

\* two different bullets under one header
C15_Witness ==
    /\ ppc = "done"
    /\ text_src = <<LineAdmin, LineBullet, LineBulletPadded>>
    /\ Len(results.admin) = 2
    /\ results.admin[1].text = "Version 9.6.0 addresses a known CVE"
    /\ results.admin[2].text = "New dashboard"

---------------------------------------------------------------------------
(* Claims about both parsers *)

\* a parser has returned its buckets
Returned == ppc \in {"done", "failed"} \/ opc \in {"done", "failed"}

\* C14: in every result of either parser, each compatibility entry has
\* exactly the field text, and each user/admin entry has exactly the fields
\* importance, text, version and category, with importance major or minor and
\* a non-empty category (a subsection line that is only ':' gives 'General').
C14_EntryShapes ==
    Returned =>
        /\ \A k \in 1..Len(results.compatibility) :
               DOMAIN results.compatibility[k] = {"text"}
        /\ \A b \in {"user", "admin"} : \A k \in 1..Len(results[b]) :
               /\ DOMAIN results[b][k] = {"importance", "text", "version", "category"}
               /\ results[b][k].importance \in {"major", "minor"}
               /\ results[b][k].category # ""

\* format A has returned the item of a bullet under a ':' line
C14_Witness ==
    /\ ppc = "done"
    /\ text_src = <<LineAdmin, LineColon, LineBullet>>
    /\ Len(results.admin) = 1
    /\ results.admin[1].category = "General"

\* the lines of the answer that hold none of the grammar of either format
NoGrammar == \A i \in 1..Len(text_src) : text_src[i].kind \in {"ignored", "blank"}

\* C16: neither parser entry point ever raises: for an empty text, a text
\* matching no recognised grammar, or a failure of the model call or of a
\* parsing step, the call returns the three keys user, admin, compatibility,
\* each bound to an empty list.
C16_ParsersNeverRaise ==
    /\ ppc # "raised"
    /\ opc # "raised"
    /\ (ppc = "failed" \/ opc = "failed") => results = EmptyResults
    /\ (Returned /\ NoGrammar) => results = EmptyResults

---------------------------------------------------------------------------
(* Claims about the wire-format-B parser *)

\* the header line most recently written before line i of the answer, in
\* whatever block (0 when there is none)
HeaderBefore(i) ==
    LET hs == {h \in 1..(i - 1) : text_src[h].kind = "header"}
    IN IF hs = {} THEN 0 ELSE MaxOf(hs)

\* line i stands under its header in the same block: no blank line between
SameBlock(i) ==
    /\ HeaderBefore(i) # 0
    /\ \A j \in HeaderBefore(i)..i : text_src[j].kind # "blank"

\* the category each header line stands for
HeaderCategory ==
    [t \in {"New Features:", "Bugs Fixed:", "Breaking Changes:", "Other Noteworthy Changes:"} |->
        IF t = "New Features:" THEN "New Features"
        ELSE IF t = "Bugs Fixed:" THEN "Bug Fixes"
        ELSE IF t = "Breaking Changes:" THEN "Breaking Changes"
        ELSE "Other Changes"]

\* the texts of the entries of a bucket
TextsIn(b) == {results[b][k].text : k \in 1..Len(results[b])}

\* the answer holds one header line, and no bullet text names a section
OneSectionAnswer ==
    /\ Cardinality({i \in 1..Len(text_src) : text_src[i].kind = "header"}) = 1
    /\ \A i \in 1..Len(text_src) : text_src[i] # LineStarPanel

\* C17: format B keeps its section state across blank-line blocks, as format
\* A does: a bullet line is routed to the bucket of the header most recently
\* seen, also when that header stands in an earlier block (a blank line
\* between 'New Features:' and its bullets), and is dropped only when no
\* header has been seen yet. Stated for answers of one section.
C17_SectionStateAcrossBlocks ==
    (opc = "done" /\ OneSectionAnswer) =>
        \A i \in 1..Len(text_src) :
            (text_src[i].kind = "bullet" /\ HeaderBefore(i) # 0) =>
                text_src[i].arg \in TextsIn(text_src[HeaderBefore(i)].arg)

\* C18: in format B the bucket and the category of a bullet are those of the
\* header line it stands under, whatever the bullet texts say: a bullet under
\* 'Bugs Fixed:' whose text mentions 'New Features' has category 'Bug Fixes'.
C18_CategoryFromHeaderLine ==
    opc = "done" =>
        \A i \in 1..Len(text_src) :
            (text_src[i].kind = "bullet" /\ SameBlock(i)) =>
                LET header == text_src[HeaderBefore(i)]
                IN \E k \in 1..Len(results[header.arg]) :
                       /\ results[header.arg][k].text = text_src[i].arg
                       /\ header.arg # "compatibility" =>
                              results[header.arg][k].category = HeaderCategory[header.text]

\* the version each bullet text of format B names
NamedVersion ==
    [t \in {LineDashVersion.arg, LineStarPanel.arg, LineDashNone.arg} |->
        IF t = LineDashVersion.arg THEN "9.6.0" ELSE "N/A"]

\* C19: in format B the version of every user/admin item is the one its
\* content names: 'X.Y.Z' for a text holding 'Version X.Y.Z', and 'N/A' only
\* for a text holding no version token.
C19_OllamaVersionFromContent ==
    opc = "done" =>
        \A b \in {"user", "admin"} : \A k \in 1..Len(results[b]) :
            results[b][k].version = NamedVersion[results[b][k].text]

---------------------------------------------------------------------------
(* Claims about the admin vocabulary *)

TwelveTerms ==
    <<"configuration", "security", "performance", "database", "server", "installation",
      "upgrade", "migration", "compatibility", "permissions", "authentication",
      "authorization">>
FourteenTerms ==
    <<"admin", "configuration", "security", "performance", "database", "server",
      "installation", "upgrade", "migration", "compatibility", "permission", "access",
      "authentication", "authorization">>
TwelveTexts == {t \in NoteTexts : MentionsAny(t, TwelveTerms)}
FourteenTexts == {t \in NoteTexts : MentionsAny(t, FourteenTerms)}

\* C20 as written: a note is in the admin bucket exactly when its text
\* contains, in any letter case, one of the twelve terms configuration,
\* security, performance, database, server, installation, upgrade, migration,
\* compatibility, permissions, authentication, authorization.
C20_AdminIffTwelveTerms ==
    apc = "done" =>
        \A i \in 1..Len(release_notes) :
            InList(Block(release_notes[i]), admin_notes)
                <=> release_notes[i].notes \in TwelveTexts

\* C20 (amended): a note is in the admin bucket exactly when its text
\* contains, in any letter case, one of the fourteen terms admin,
\* configuration, security, performance, database, server, installation,
\* upgrade, migration, compatibility, permission, access, authentication,
\* authorization; a note containing none of them is never admin-relevant.
C20_AdminIffFourteenTerms ==
    apc = "done" =>
        \A i \in 1..Len(release_notes) :
            InList(Block(release_notes[i]), admin_notes)
                <=> release_notes[i].notes \in FourteenTexts

\* a note that mentions 'access' and none of the twelve terms is in the
\* admin bucket
C20_Witness ==
    /\ apc = "done"
    /\ Len(release_notes) = 1
    /\ release_notes[1].notes = FragAccess.text
    /\ admin_notes = <<Block(release_notes[1])>>

---------------------------------------------------------------------------
(* Claims about the hazard warnings of analyze_release_notes *)

\* how a drawn hazard text was written, and the numbers of a drawn target
HazardFragsOf == [t \in HazardTexts |-> CHOOSE fs \in HazardFragLists : ContentOf(fs) = t]
HazardGoodTargets == {Dotted(t) : t \in HazardTargetNumbers}
HazardNumbersOf ==
    [t \in HazardGoodTargets |-> CHOOSE ns \in HazardTargetNumbers : Dotted(ns) = t]

\* the minimum-version warnings the requirements stated in a text call for,
\* each naming the requirement as it is written, in the order of the text
RECURSIVE StatedRequiresWarnings(_, _)
StatedRequiresWarnings(fs, target) ==
    IF fs = <<>> THEN <<>>
    ELSE (IF Head(fs).req # <<>> /\ NumericSign(Head(fs).req, HazardNumbersOf[target]) = 1
          THEN <<RequiresWarning(Dotted(Head(fs).req))>> ELSE <<>>)
         \o StatedRequiresWarnings(Tail(fs), target)

\* the warnings a text calls for: its minimum-version warnings, then one for
\* a breaking change, then one for a deprecation
StatedWarnings(fs, target) ==
    StatedRequiresWarnings(fs, target)
    \o (IF \E i \in 1..Len(fs) : fs[i].brk THEN <<BreakingWarning>> ELSE <<>>)
    \o (IF \E i \in 1..Len(fs) : fs[i].dep THEN <<DeprecatedWarning>> ELSE <<>>)

\* the warnings of the notes one after the other, in input order
RECURSIVE WarningsOfNotes(_, _)
WarningsOfNotes(notes, target) ==
    IF notes = <<>> THEN <<>>
    ELSE StatedWarnings(HazardFragsOf[Head(notes).notes], target)
         \o WarningsOfNotes(Tail(notes), target)

RECURSIVE RequiresWarningsOfNotes(_, _)
RequiresWarningsOfNotes(notes, target) ==
    IF notes = <<>> THEN <<>>
    ELSE StatedRequiresWarnings(HazardFragsOf[Head(notes).notes], target)
         \o RequiresWarningsOfNotes(Tail(notes), target)

\* the breaking-change and deprecation warnings of the notes, in input order
RECURSIVE PhraseWarningsOfNotes(_)
PhraseWarningsOfNotes(notes) ==
    IF notes = <<>> THEN <<>>
    ELSE StatedWarnings(SelectSeq(HazardFragsOf[Head(notes).notes],
                                  LAMBDA f : f.req = <<>>), "9.4.0")
         \o PhraseWarningsOfNotes(Tail(notes))

\* the note states a requirement of n components (of at least n components)
StatesRequirementOf(note, n) ==
    \E i \in 1..Len(HazardFragsOf[note.notes]) : Len(HazardFragsOf[note.notes][i].req) = n
StatesRequirementFrom(note, n) ==
    \E i \in 1..Len(HazardFragsOf[note.notes]) : Len(HazardFragsOf[note.notes][i].req) >= n

\* every requirement the notes state is written X.Y.Z
ThreeComponentNotes(notes) ==
    \A i \in 1..Len(notes) : ~StatesRequirementOf(notes[i], 2) /\ ~StatesRequirementOf(notes[i], 4)

\* C22: compatibility_warnings lists the warnings of note i before those of
\* note j whenever i precedes j in the input, and within one note all
\* minimum-version warnings (in the order of the text), then the
\* breaking-change warning, then the deprecation warning; nothing is
\* deduplicated or reordered, so two notes with breaking changes yield two
\* identical warning strings. The returned field is the list joined by blank
\* lines. (Stated for requirements written X.Y.Z.)
C22_WarningsInNoteOrder ==
    (apc = "done" /\ target_jira_version \in HazardGoodTargets
                  /\ ThreeComponentNotes(release_notes)) =>
        /\ compatibility_warnings = WarningsOfNotes(release_notes, target_jira_version)
        /\ result.compatibility_warnings =
               join(WarningsOfNotes(release_notes, target_jira_version), "\n\n")

\* a requirement written after the phrase of its note, and the breaking-change
\* warning twice: once for each of the two notes
C22_Witness ==
    /\ apc = "done"
    /\ Len(release_notes) = 2
    /\ release_notes[1].notes = ContentOf(<<FragBreaking, FragReqHigh>>)
    /\ release_notes[2].notes = ContentOf(<<FragDeprecated, FragBreaking>>)
    /\ compatibility_warnings =
           <<RequiresWarning("10.0.0"), BreakingWarning, BreakingWarning, DeprecatedWarning>>

\* C25: the result of analyze_release_notes does not depend on
\* current_jira_version: two calls that differ only in the current version (a
\* malformed one included) raise together or return identical results.
C25_CurrentVersionIsIgnored ==
    (first.made /\ apc \in {"done", "raised"}) =>
        /\ first.raised <=> apc = "raised"
        /\ ~first.raised => result = first.result

\* two calls on a note with a requirement above the target have returned the
\* same warning, the second with a malformed current version
C25_Witness ==
    /\ first.made /\ apc = "done"
    /\ current_jira_version = "ten"
    /\ target_jira_version = "9.4.0"
    /\ result = first.result
    /\ result.compatibility_warnings # ""

\* C26: the minimum-version scan recognises a requirement 'requires Jira
\* <dotted-version>' with any number of components and compares the version
\* as written: every stated requirement above the target yields a warning
\* naming it ('requires Jira 11.0' with target 10.3.0 yields one, 'requires
\* Jira 10.3.0.1' with target 10.3.0 yields one naming 10.3.0.1).
C26_RequirementsOfAnyLength ==
    (apc = "done" /\ target_jira_version \in HazardGoodTargets) =>
        SelectSeq(compatibility_warnings, IsRequiresWarning)
            = RequiresWarningsOfNotes(release_notes, target_jira_version)

\* C27 as written: with a malformed target version analyze_release_notes
\* never returns a result, whatever the notes.
C27_MalformedTargetAlwaysFails ==
    target_jira_version \in HazardBadTargets => apc # "done"

\* C27 (amended): with a malformed target version analyze_release_notes fails
\* with a parsing error at the first note that holds a phrase 'requires Jira
\* X.Y.Z', and only there; when no note holds one it returns its result, with
\* the breaking-change and deprecation warnings of the notes and no
\* minimum-version warning.
C27_MalformedTargetFailsOnRequirement ==
    /\ (apc = "done" /\ target_jira_version \in HazardBadTargets) =>
        /\ \A i \in 1..Len(release_notes) : ~StatesRequirementFrom(release_notes[i], 3)
        /\ SelectSeq(compatibility_warnings, IsRequiresWarning) = <<>>
        /\ compatibility_warnings = PhraseWarningsOfNotes(release_notes)
    /\ apc = "raised" =>
        /\ target_jira_version \in HazardBadTargets
        /\ StatesRequirementFrom(release_notes[note_idx + 1], 3)
        /\ \A i \in 1..note_idx : ~StatesRequirementFrom(release_notes[i], 3)
    /\ (apc = "loop" /\ note_idx < Len(release_notes)
           /\ target_jira_version \in HazardBadTargets
           /\ StatesRequirementFrom(release_notes[note_idx + 1], 3)) =>
        check_compatibility(release_notes[note_idx + 1].notes, current_jira_version,
                            target_jira_version).raised

\* the call with target 'ten' has returned the warnings of a note that
\* states no requirement
C27_Witness ==
    /\ apc = "done"
    /\ target_jira_version = "ten"
    /\ Len(release_notes) = 1
    /\ release_notes[1].notes = ContentOf(<<FragDeprecated, FragBreaking>>)
    /\ result.compatibility_warnings = BreakingWarning \o "\n\n" \o DeprecatedWarning

---------------------------------------------------------------------------
(* Claims about the item texts and the item count of wire format A *)

\* C23: in the wire-format-A parser the text of every item is the bullet
\* line with only the marker and the whitespace around it removed: no
\* character of the description is lost, whether the marker is followed by
\* one space, several spaces or no space at all.
C23_TextIsLineWithoutMarker ==
    ppc = "done" =>
        \A b \in Buckets : \A k \in 1..Len(results[b]) :
            /\ k <= Len(ContentLinesOf(b))
            /\ results[b][k].text = text_src[ContentLinesOf(b)[k]].arg

\* the content lines of the answer written after a main-section header
ContentLinesAfterMain ==
    {i \in 1..Len(text_src) : text_src[i].kind = "content" /\ MainBefore(i) # 0}

\* C28: conservation in the wire-format-A parser: after processing any
\* input, the number of items across the three buckets is the number of
\* content lines (start with the marker, do not end with ':') written after
\* the first main-section header; no content line is in two buckets and none
\* after a header is lost.
C28_ItemsAreContentLines ==
    ppc = "done" =>
        /\ ItemCount = Cardinality(ContentLinesAfterMain)
        /\ \A b \in Buckets : Len(results[b]) = Len(ContentLinesOf(b))
        /\ \A i \in ContentLinesAfterMain :
               Cardinality({b \in Buckets : \E k \in 1..Len(ContentLinesOf(b)) :
                                               ContentLinesOf(b)[k] = i}) = 1

\* a bullet before any header is not counted, the one after the header is;
\* a marker line that ends with ':' is no content line
C28_Witness ==
    /\ ppc = "done"
    /\ \/ text_src = <<LineBullet, LineCompat, LineBulletPadded>>
       \/ text_src = <<LineAdmin, LineBulletColon, LineBullet>>
    /\ ItemCount = 1

---------------------------------------------------------------------------
(* Claims about wire format B on answers that follow the template *)

\* the texts of the bullet lines written under the header line h, in order
BulletTextsUnder(h) ==
    LET is == SelectSeq([i \in 1..Len(text_src) |-> i],
                        LAMBDA i : text_src[i].kind = "bullet"
                                   /\ HeaderBefore(i) # 0 /\ text_src[HeaderBefore(i)] = h)
    IN [k \in 1..Len(is) |-> text_src[is[k]].arg]

\* C24: when the wire-format-B input follows the template of the system
\* prompt, the bullets under the header 'Compatibility Issues and Breaking
\* Changes:' are placed in the compatibility bucket, as text-only entries,
\* and not in the admin bucket.
C24_TemplateCompatibilitySection ==
    opc = "done" =>
        /\ results.compatibility =
               [k \in 1..Len(BulletTextsUnder(LineCompatBreaking)) |->
                   [text |-> BulletTextsUnder(LineCompatBreaking)[k]]]
        /\ \A k \in 1..Len(BulletTextsUnder(LineCompatBreaking)) :
               BulletTextsUnder(LineCompatBreaking)[k] \notin TextsIn("admin")

=============================================================================
